---- MODULE Spec2Model ----
(***************************************************************************)
(* A model of the two task scripts of the INSPIRE repository:              *)
(*   bibtasklets/bst_pdg_update_idents.py  (the PDG identifier sync job)   *)
(*   websubmit/CONFSUBMIT_Insert_Record.py (the submission forwarder)      *)
(*                                                                         *)
(* Python values are represented as follows.                               *)
(*   dict          a function (the empty dict is << >>)                    *)
(*   list          a sequence                                              *)
(*   None / value  the sets {} and {value} (None, Some, TheValue)          *)
(*   record        a dict from tags to lists of fields                     *)
(*   field         the bibrecord tuple (subfields, ind1, ind2,             *)
(*                 controlfield_value, global position) as a record        *)
(*                                                                         *)
(* The collaborators (search, get_record, the bibrecord functions, the     *)
(* file system, task_low_level_submission) are modelled by what the        *)
(* scripts use of them.  The input file, when it can be opened, holds a     *)
(* JSON list of objects; every stored 084 field has blank indicators and   *)
(* a subfield 2, and a subfield 9 when its subfield 2 is PDG.  A Python    *)
(* exception that nothing catches ends the run: status holds its name.     *)
(***************************************************************************)
EXTENDS Integers, Sequences, FiniteSets, TLC

(* ------------------------------ bounds -------------------------------- *)

\* record ids 1..MaxRecId form the HEP collection; MaxRecId+1 is outside it
MaxRecId == 2
\* the number of elements of the JSON input of a whole run
MaxElems == 2
\* the number of 084 field instances of a stored record
MaxFields == 2
\* the length of an element's pdgIdList
MaxPdgIds == 2

(* --------------------------- basic values ----------------------------- *)

None == {}

Some(x) == {x}

TheValue(o) == CHOOSE x \in o : TRUE

RecIds == 1..MaxRecId

InputIds == 1..(MaxRecId + 1)

PdgValues == {"S008", "S009"}

SeqsUpTo(S, n) == UNION {[1..k -> S] : k \in 0..n}

RECURSIVE SortedSeq(_)
SortedSeq(S) ==
    IF S = {} THEN << >>
    ELSE LET m == CHOOSE x \in S : \A y \in S : x <= y
         IN  <<m>> \o SortedSeq(S \ {m})

Range(s) == {s[i] : i \in DOMAIN s}

\* list(a_set): the elements in the iteration order the interpreter gives them
ListOf(S, order) == SelectSeq(order, LAMBDA v : v \in S)

Orders(S) == {o \in [1..Cardinality(S) -> S] : Range(o) = S}

SEARCH_TERM == "084:pdg"

\* class ParseResult: Success, Missing, Invalid = range(3)
Success == 0

Missing == 1

Invalid == 2

(* ----------------- invenio.bibrecord, as the job uses it -------------- *)

Field(subs, ctl, pos) ==
    [subs |-> subs, ind1 |-> " ", ind2 |-> " ", ctl |-> ctl, pos |-> pos]

\* [value for (code, value) in field[0] if code == wanted]
RECURSIVE SubfieldValues(_, _)
SubfieldValues(subs, code) ==
    IF subs = << >> THEN << >>
    ELSE (IF Head(subs)[1] = code THEN <<Head(subs)[2]>> ELSE << >>)
         \o SubfieldValues(Tail(subs), code)

field_get_subfield_values(field, code) == SubfieldValues(field.subs, code)

\* the instances of tag whose indicators are the (blank) defaults
record_get_field_instances(rec, tag) ==
    IF tag \in DOMAIN rec
    THEN SelectSeq(rec[tag], LAMBDA f : f.ind1 = " " /\ f.ind2 = " ")
    ELSE << >>

AllPositions(rec) == UNION {{f.pos : f \in Range(rec[t])} : t \in DOMAIN rec}

MaxOf(S) == CHOOSE x \in S : \A y \in S : y <= x

\* the global position record_add_field gives to (and returns for) a new field
NewFieldPosition(rec, tag) ==
    IF tag \in DOMAIN rec /\ rec[tag] # << >>
    THEN rec[tag][Len(rec[tag])].pos + 1
    ELSE IF AllPositions(rec) = {} THEN 1 ELSE MaxOf(AllPositions(rec)) + 1

record_add_field(rec, tag, ctl) ==
    LET new == Field(<< >>, ctl, NewFieldPosition(rec, tag))
        old == IF tag \in DOMAIN rec THEN rec[tag] ELSE << >>
    IN  (tag :> Append(old, new)) @@ rec

record_add_subfield_into(rec, tag, code, value, position) ==
    [rec EXCEPT ![tag] =
        [i \in DOMAIN rec[tag] |->
            IF rec[tag][i].pos = position
            THEN [rec[tag][i] EXCEPT !.subs = Append(@, <<code, value>>)]
            ELSE rec[tag][i]]]

\* removes the instance at the global position; an emptied tag is dropped
record_delete_field(rec, tag, position) ==
    IF tag \notin DOMAIN rec THEN rec
    ELSE LET kept == SelectSeq(rec[tag],
                        LAMBDA f : (f.ind1 # " " /\ f.ind2 # " ") \/ f.pos # position)
         IN  IF kept = << >>
             THEN [t \in DOMAIN rec \ {tag} |-> rec[t]]
             ELSE [rec EXCEPT ![tag] = kept]

(* --------------------- bst_pdg_update_idents.py ----------------------- *)

\* int(element['inspireId']): the JSON value is an integer or a digit string
int(raw) == raw.n

KeysWanted == {"inspireId", "pdgIdList"}

\* line 126 with a subset test in place of the equality
parse_pdg_element_subset(element, hep) ==
    IF ~(element.keys \subseteq KeysWanted)
    THEN [status |-> Invalid, recid |-> None, pdg_values |-> None]
    ELSE IF int(element.inspireId) \notin hep
         THEN [status |-> Missing, recid |-> None, pdg_values |-> None]
         ELSE [status |-> Success,
               recid |-> Some(int(element.inspireId)),
               pdg_values |-> Some(element.pdgIdList)]

parse_pdg_element(element, hep) ==
    IF element.keys # KeysWanted
    THEN [status |-> Invalid, recid |-> None, pdg_values |-> None]
    ELSE IF int(element.inspireId) \notin hep
         THEN [status |-> Missing, recid |-> None, pdg_values |-> None]
         ELSE [status |-> Success,
               recid |-> Some(int(element.inspireId)),
               pdg_values |-> Some(element.pdgIdList)]

\* lines 139-141 without the test of subfield 9
is_pdg_field_scheme_only(field) ==
    field_get_subfield_values(field, "2")[1] = "PDG"

is_pdg_field(field) ==
    /\ field_get_subfield_values(field, "2")[1] = "PDG"
    /\ field_get_subfield_values(field, "9")[1] = "PDG"

\* one new 084 field with the subfields 2=PDG, 9=PDG, a=value
AddPdgField(rec, value) ==
    LET position == NewFieldPosition(rec, "084")
        r0 == record_add_field(rec, "084", 0)
        r1 == record_add_subfield_into(r0, "084", "2", "PDG", position)
        r2 == record_add_subfield_into(r1, "084", "9", "PDG", position)
    IN  record_add_subfield_into(r2, "084", "a", value, position)

RECURSIVE AddPdgFields(_, _)
AddPdgFields(rec, values) ==
    IF values = << >> THEN rec
    ELSE AddPdgFields(AddPdgField(rec, Head(values)), Tail(values))

create_new_pdg_fields(recids, pdg_data) ==
    [recid \in recids |->
        AddPdgFields(record_add_field(<< >>, "001", recid), pdg_data[recid])]

PdgFieldsOf(rec) == SelectSeq(record_get_field_instances(rec, "084"), is_pdg_field)

remove_pdg_fields(recids, current) ==
    [recid \in recids |->
        [t \in {"001", "084"} |->
            IF t = "001" THEN current[recid]["001"] ELSE PdgFieldsOf(current[recid])]]

\* the values of subfield a of the PDG fields
PdgValuesOf(rec) ==
    {field_get_subfield_values(f, "a")[1] : f \in Range(PdgFieldsOf(rec))}

current_set(rec) == PdgValuesOf(rec)

new_set(pdg_data, recid) == Range(pdg_data[recid])

Deletions(rec, pdg_data, recid) == current_set(rec) \ new_set(pdg_data, recid)

Additions(rec, pdg_data, recid) == new_set(pdg_data, recid) \ current_set(rec)

\* lines 201-205 leaving the loop after the first field deleted
RECURSIVE DeleteListedFirstMatch(_, _, _)
DeleteListedFirstMatch(rec, fields, deletions) ==
    IF fields = << >> THEN rec
    ELSE IF is_pdg_field(Head(fields))
            /\ field_get_subfield_values(Head(fields), "a")[1] \in deletions
         THEN record_delete_field(rec, "084", Head(fields).pos)
         ELSE DeleteListedFirstMatch(rec, Tail(fields), deletions)

RECURSIVE DeleteListed(_, _, _)
DeleteListed(rec, fields, deletions) ==
    IF fields = << >> THEN rec
    ELSE LET field == Head(fields)
             r == IF is_pdg_field(field)
                     /\ field_get_subfield_values(field, "a")[1] \in deletions
                  THEN record_delete_field(rec, "084", field.pos)
                  ELSE rec
         IN  DeleteListed(r, Tail(fields), deletions)

\* record_mod of one record of the compare set
CorrectedRecord(rec, pdg_data, recid, order) ==
    LET record_mod == [t \in {"001", "084"} |-> rec[t]]
        fields == record_get_field_instances(record_mod, "084")
        deletions == Deletions(record_mod, pdg_data, recid)
        additions == Additions(record_mod, pdg_data, recid)
    IN  AddPdgFields(DeleteListed(record_mod, fields, deletions),
                     ListOf(additions, order))

\* line 199 with the test dropped
NeedsCorrectionAlways(rec, pdg_data, recid) == TRUE

NeedsCorrection(rec, pdg_data, recid) ==
    Deletions(rec, pdg_data, recid) # {} \/ Additions(rec, pdg_data, recid) # {}

check_existing_pdg_fields(recids, pdg_data, current, order) ==
    [recid \in {r \in recids : NeedsCorrection(current[r], pdg_data, r)} |->
        CorrectedRecord(current[recid], pdg_data, recid, order)]

\* current_records[recid] raises KeyError for a recid that has no entry
RaisesKeyError(recids, current) == \E r \in recids : r \notin DOMAIN current

(* ------------------------------ the job -------------------------------- *)

VARIABLES
    pc,                 \* the next step of main
    status,             \* "running", "returned", "exit2" or the exception raised
    dry_run,
    input_readable,     \* whether open(input_file) succeeds
    hep_collection,     \* get_collection_reclist('HEP')
    store,              \* the record store: what get_record returns
    current_record_ids, current_records, bad_record_ids,
    new_elements, new_pdg_data, elements_missing, elements_invalid,
    ids_add, ids_compare, ids_delete,
    appends, updates, deletions,
    files,              \* the files written, in order
    log,                \* the messages printed
    parse_result        \* the value parse_pdg_element returned (the parser alone)

jobvars == <<pc, status, dry_run, input_readable, hep_collection, store,
             current_record_ids, current_records, bad_record_ids,
             new_elements, new_pdg_data, elements_missing, elements_invalid,
             ids_add, ids_compare, ids_delete, appends, updates, deletions,
             files, log, parse_result>>

(* ---------------- CONFSUBMIT_Insert_Record.py: the state --------------- *)

VARIABLES
    sub_pc,             \* the next step of CONFSUBMIT_Insert_Record
    sub_status,         \* "running", "returned" or the exception raised
    curdir,             \* the files of curdir: name -> content
    shared_dir,         \* the files of CFG_TMPSHAREDDIR: name -> content
    rn,                 \* the global rn, a string as the list of its pieces
    timestamp,          \* time.strftime("%Y-%m-%d_%H:%M:%S")
    final_file,
    tasks,              \* the arguments of the tasks submitted
    bibupload_id

subvars == <<sub_pc, sub_status, curdir, shared_dir, rn, timestamp, final_file, tasks,
             bibupload_id>>

\* the forwarder is not called
SubmitIdle ==
    /\ sub_pc = "idle"
    /\ sub_status = "running"
    /\ curdir = << >>
    /\ shared_dir = << >>
    /\ rn = << >>
    /\ timestamp = ""
    /\ final_file = None
    /\ tasks = << >>
    /\ bibupload_id = None

\* a stored 084 field: scheme (subfield 2), source (subfield 9, "" when the
\* field has none) and value (subfield a)
Stored084(desc, pos) ==
    Field(<<<<"2", desc[1]>>>>
          \o (IF desc[2] = "" THEN << >> ELSE <<<<"9", desc[2]>>>>)
          \o <<<<"a", desc[3]>>>>, 0, pos)

\* get_record(recid): 001, the 084 fields described, and a 980 field
StoredRecord(recid, descs) ==
    LET f001 == <<Field(<< >>, recid, 1)>>
        f084 == [i \in DOMAIN descs |-> Stored084(descs[i], i + 1)]
        f980 == <<Field(<<<<"a", "HEP">>>>, 0, Len(descs) + 2)>>
    IN  IF descs = << >>
        THEN [t \in {"001", "980"} |-> IF t = "001" THEN f001 ELSE f980]
        ELSE [t \in {"001", "084", "980"} |->
                IF t = "001" THEN f001 ELSE IF t = "084" THEN f084 ELSE f980]

PdgDesc(v) == <<"PDG", "PDG", v>>

\* the 084 fields of the records the search of a whole run may hit
JobShapes ==
    { << >>,
      <<PdgDesc("S008")>>,
      <<<<"PACS", "", "S008">>, PdgDesc("S009")>> }

IntId(n) == [str |-> FALSE, n |-> n]

StrId(n) == [str |-> TRUE, n |-> n]

Element(keys, id, list) == [keys |-> keys, inspireId |-> id, pdgIdList |-> list]

\* the elements of the input of a whole run: one per id, a second one for
\* record 1, and one without pdgIdList
JobElements ==
    {Element(KeysWanted, IntId(n), <<"S008">>) : n \in InputIds}
    \cup {Element(KeysWanted, IntId(1), <<"S008", "S009">>),
          Element({"inspireId"}, IntId(1), << >>)}

ChangeSets == {"append.xml", "correct.xml", "delete.xml"}

\* lines 85-91 without the except clause
write_list_to_file_uncaught(fs, lg, name, list_to_write, ok) ==
    [files |-> IF ok THEN Append(fs, [name |-> name, body |-> list_to_write]) ELSE fs,
     log |-> lg, raised |-> ~ok]

\* lines 81-93: the files and the log afterwards, and whether IOError escapes
write_list_to_file(fs, lg, name, list_to_write, ok) ==
    [files |-> IF ok THEN Append(fs, [name |-> name, body |-> list_to_write]) ELSE fs,
     log |-> lg \cup (IF ok THEN {} ELSE {<<"Error: Could not write to file", name, 0>>})
                \cup {<<"lines written", name, Len(list_to_write)>>},
     raised |-> FALSE]

\* the lines between <collection> and </collection>, one entry per record
XmlOut(records) == [i \in 1..Cardinality(DOMAIN records) |->
                        records[SortedSeq(DOMAIN records)[i]]]

\* lines 107-111 without the test of dry_run
write_records_to_file_always(fs, lg, name, records, dry, ok) ==
    IF Cardinality(DOMAIN records) > 0
    THEN write_list_to_file(fs, lg, name, XmlOut(records), ok)
    ELSE [files |-> fs, log |-> lg, raised |-> FALSE]

\* lines 96-111
write_records_to_file(fs, lg, name, records, dry, ok) ==
    IF Cardinality(DOMAIN records) > 0
    THEN IF dry
         THEN [files |-> fs,
               log |-> lg \cup {<<"DRY: Ready to write", name,
                                  Cardinality(DOMAIN records)>>},
               raised |-> FALSE]
         ELSE write_list_to_file(
                 fs,
                 lg \cup {<<"Writing entries to file", name, Cardinality(DOMAIN records)>>},
                 name, XmlOut(records), ok)
    ELSE [files |-> fs, log |-> lg, raised |-> FALSE]

\* the outcomes of open(path, "w") a call can meet: success, or IOError
OpenOutcomes(attempts) == IF attempts THEN BOOLEAN ELSE {TRUE}

\* the effect of a write on the run: an escaping exception ends it
Written(w, next) ==
    /\ files' = w.files
    /\ log' = w.log
    /\ IF w.raised
       THEN status' = "IOError" /\ pc' = pc
       ELSE status' = status /\ pc' = next

Said(msg) == log \cup {<<msg, "", 0>>}

\* nothing parsed, matched, computed or written yet
NothingParsed ==
    /\ status = "running"
    /\ new_pdg_data = << >>
    /\ elements_missing = << >>
    /\ elements_invalid = << >>
    /\ ids_add = {}
    /\ ids_compare = {}
    /\ ids_delete = {}
    /\ appends = None
    /\ updates = None
    /\ deletions = None
    /\ files = << >>
    /\ parse_result = None

\* lines 226-239: the search, and get_record of every hit
Fetch ==
    /\ pc = "fetch" /\ status = "running"
    /\ UNCHANGED subvars
    /\ \E hits \in SUBSET RecIds :
       \E shape \in [hits -> JobShapes] :
         LET record(r) == StoredRecord(r, shape[r])
             good == {r \in hits : "084" \in DOMAIN record(r)}
         IN  /\ store' = [r \in hits |-> record(r)]
             /\ current_record_ids' = hits
             /\ current_records' = [r \in good |-> record(r)]
             /\ bad_record_ids' = SortedSeq(hits \ good)
    /\ pc' = "bad_report"
    /\ UNCHANGED <<status, dry_run, input_readable, hep_collection, new_elements,
                   new_pdg_data, elements_missing, elements_invalid, ids_add,
                   ids_compare, ids_delete, appends, updates, deletions, files, log,
                   parse_result>>

\* lines 241-243
ReportBadRecordIds ==
    /\ pc = "bad_report" /\ status = "running"
    /\ UNCHANGED subvars
    /\ IF Len(bad_record_ids) > 0
       THEN \E ok \in BOOLEAN :
                Written(write_list_to_file(files, Said("WARNING: Bad record IDs found!"),
                                           "bad_record_ids", bad_record_ids, ok), "read")
       ELSE pc' = "read" /\ UNCHANGED <<files, log, status>>
    /\ UNCHANGED <<dry_run, input_readable, hep_collection, store,
                   current_record_ids, current_records, bad_record_ids,
                   new_elements, new_pdg_data, elements_missing, elements_invalid,
                   ids_add, ids_compare, ids_delete, appends, updates, deletions,
                   parse_result>>

\* line 246, get_elements_from_file: IOError ends the process with sys.exit(2)
ReadInput ==
    /\ pc = "read" /\ status = "running"
    /\ UNCHANGED subvars
    /\ IF input_readable
       THEN /\ new_elements' \in SeqsUpTo(JobElements, MaxElems)
            /\ log' = Said("Reading from file")
            /\ pc' = "parse"
            /\ UNCHANGED status
       ELSE /\ status' = "exit2"
            /\ log' = Said("Error: Could not open for reading.")
            /\ UNCHANGED <<new_elements, pc>>
    /\ UNCHANGED <<dry_run, input_readable, hep_collection, store,
                   current_record_ids, current_records, bad_record_ids,
                   new_pdg_data, elements_missing, elements_invalid,
                   ids_add, ids_compare, ids_delete, appends, updates, deletions,
                   files, parse_result>>

\* lines 251-261: the state of the loop after the elements given
RECURSIVE ParseAll(_, _, _)
ParseAll(elements, hep, acc) ==
    IF elements = << >> THEN acc
    ELSE LET element == Head(elements)
             r == parse_pdg_element(element, hep)
             next ==
                IF r.status = Success
                THEN [acc EXCEPT !.data =
                        (TheValue(r.recid) :> TheValue(r.pdg_values)) @@ @]
                ELSE IF r.status = Invalid
                THEN [acc EXCEPT !.invalid = Append(@, element)]
                ELSE IF r.status = Missing
                THEN [acc EXCEPT !.missing = Append(@, element)]
                ELSE acc
         IN  ParseAll(Tail(elements), hep, next)

ParseInput ==
    /\ pc = "parse" /\ status = "running"
    /\ UNCHANGED subvars
    /\ LET r == ParseAll(new_elements, hep_collection,
                         [data |-> << >>, missing |-> << >>, invalid |-> << >>])
       IN  /\ new_pdg_data' = r.data
           /\ elements_missing' = r.missing
           /\ elements_invalid' = r.invalid
    /\ pc' = "missing_report"
    /\ UNCHANGED <<status, dry_run, input_readable, hep_collection, store,
                   current_record_ids, current_records, bad_record_ids,
                   new_elements, ids_add, ids_compare, ids_delete,
                   appends, updates, deletions, files, log, parse_result>>

\* lines 268-269
ReportMissing ==
    /\ pc = "missing_report" /\ status = "running"
    /\ UNCHANGED subvars
    /\ IF Len(elements_missing) # 0
       THEN \E ok \in BOOLEAN :
                Written(write_list_to_file(files, log, "missing-records.txt",
                                           elements_missing, ok), "invalid_report")
       ELSE pc' = "invalid_report" /\ UNCHANGED <<files, log, status>>
    /\ UNCHANGED <<dry_run, input_readable, hep_collection, store,
                   current_record_ids, current_records, bad_record_ids,
                   new_elements, new_pdg_data, elements_missing, elements_invalid,
                   ids_add, ids_compare, ids_delete, appends, updates, deletions,
                   parse_result>>

\* lines 270-271
ReportInvalid ==
    /\ pc = "invalid_report" /\ status = "running"
    /\ UNCHANGED subvars
    /\ IF Len(elements_invalid) # 0
       THEN \E ok \in BOOLEAN :
                Written(write_list_to_file(files, log, "invalid-elements.txt",
                                           elements_invalid, ok), "match")
       ELSE pc' = "match" /\ UNCHANGED <<files, log, status>>
    /\ UNCHANGED <<dry_run, input_readable, hep_collection, store,
                   current_record_ids, current_records, bad_record_ids,
                   new_elements, new_pdg_data, elements_missing, elements_invalid,
                   ids_add, ids_compare, ids_delete, appends, updates, deletions,
                   parse_result>>

\* line 277
IdsAdd(new_ids, current_ids) == new_ids \ current_ids

\* line 278 without the intersection
IdsCompareAllCurrent(new_ids, current_ids) == current_ids

\* line 278
IdsCompare(new_ids, current_ids) == current_ids \cap new_ids

\* line 279
IdsDelete(new_ids, current_ids) == current_ids \ new_ids

\* lines 277-279
MatchRecords ==
    /\ pc = "match" /\ status = "running"
    /\ UNCHANGED subvars
    /\ ids_add' = IdsAdd(DOMAIN new_pdg_data, current_record_ids)
    /\ ids_compare' = IdsCompare(DOMAIN new_pdg_data, current_record_ids)
    /\ ids_delete' = IdsDelete(DOMAIN new_pdg_data, current_record_ids)
    /\ pc' = "update_add"
    /\ UNCHANGED <<status, dry_run, input_readable, hep_collection, store,
                   current_record_ids, current_records, bad_record_ids,
                   new_elements, new_pdg_data, elements_missing, elements_invalid,
                   appends, updates, deletions, files, log, parse_result>>

\* lines 287-290
UpdateAdd ==
    /\ pc = "update_add" /\ status = "running"
    /\ UNCHANGED subvars
    /\ IF Cardinality(ids_add) > 0
       THEN /\ appends' = Some(create_new_pdg_fields(ids_add, new_pdg_data))
            /\ log' = log
       ELSE /\ appends' = appends
            /\ log' = Said("No new fields to append.")
    /\ pc' = "update_compare"
    /\ UNCHANGED <<status, dry_run, input_readable, hep_collection, store,
                   current_record_ids, current_records, bad_record_ids,
                   new_elements, new_pdg_data, elements_missing, elements_invalid,
                   ids_add, ids_compare, ids_delete, updates, deletions, files,
                   parse_result>>

\* lines 291-294
UpdateCompare ==
    /\ pc = "update_compare" /\ status = "running"
    /\ UNCHANGED subvars
    /\ IF Cardinality(ids_compare) > 0
       THEN IF RaisesKeyError(ids_compare, current_records)
            THEN /\ status' = "KeyError"
                 /\ UNCHANGED <<updates, log, pc>>
            ELSE /\ \E order \in Orders(PdgValues) :
                      updates' = Some(check_existing_pdg_fields(
                                    ids_compare, new_pdg_data, current_records, order))
                 /\ log' = log \cup {<<"records to be corrected.", "",
                                       Cardinality(DOMAIN TheValue(updates'))>>}
                 /\ pc' = "update_delete"
                 /\ UNCHANGED status
       ELSE /\ log' = Said("No duplicate records to compare.")
            /\ pc' = "update_delete"
            /\ UNCHANGED <<updates, status>>
    /\ UNCHANGED <<dry_run, input_readable, hep_collection, store,
                   current_record_ids, current_records, bad_record_ids,
                   new_elements, new_pdg_data, elements_missing, elements_invalid,
                   ids_add, ids_compare, ids_delete, appends, deletions, files,
                   parse_result>>

\* lines 295-298
UpdateDelete ==
    /\ pc = "update_delete" /\ status = "running"
    /\ UNCHANGED subvars
    /\ IF Cardinality(ids_delete) > 0
       THEN IF RaisesKeyError(ids_delete, current_records)
            THEN /\ status' = "KeyError"
                 /\ UNCHANGED <<deletions, log, pc>>
            ELSE /\ deletions' = Some(remove_pdg_fields(ids_delete, current_records))
                 /\ pc' = "write_append"
                 /\ UNCHANGED <<status, log>>
       ELSE /\ log' = Said("No fields in records to be deleted.")
            /\ pc' = "write_append"
            /\ UNCHANGED <<deletions, status>>
    /\ UNCHANGED <<dry_run, input_readable, hep_collection, store,
                   current_record_ids, current_records, bad_record_ids,
                   new_elements, new_pdg_data, elements_missing, elements_invalid,
                   ids_add, ids_compare, ids_delete, appends, updates, files,
                   parse_result>>

\* lines 301-304
WriteAppend ==
    /\ pc = "write_append" /\ status = "running"
    /\ UNCHANGED subvars
    /\ IF appends # None
       THEN \E ok \in OpenOutcomes(~dry_run) :
                Written(write_records_to_file(files, log, "append.xml",
                                              TheValue(appends), dry_run, ok),
                        "write_correct")
       ELSE /\ log' = Said("No records to append to.")
            /\ pc' = "write_correct"
            /\ UNCHANGED <<files, status>>
    /\ UNCHANGED <<dry_run, input_readable, hep_collection, store,
                   current_record_ids, current_records, bad_record_ids,
                   new_elements, new_pdg_data, elements_missing, elements_invalid,
                   ids_add, ids_compare, ids_delete, appends, updates, deletions,
                   parse_result>>

\* lines 306-309: len(updates) raises TypeError when updates is None
WriteCorrect ==
    /\ pc = "write_correct" /\ status = "running"
    /\ UNCHANGED subvars
    /\ IF updates = None
       THEN /\ status' = "TypeError"
            /\ UNCHANGED <<files, log, pc>>
       ELSE IF Cardinality(DOMAIN TheValue(updates)) > 0
            THEN \E ok \in OpenOutcomes(~dry_run) :
                    Written(write_records_to_file(files, log, "correct.xml",
                                                  TheValue(updates), dry_run, ok),
                            "write_delete")
            ELSE /\ log' = Said("No records to correct.")
                 /\ pc' = "write_delete"
                 /\ UNCHANGED <<files, status>>
    /\ UNCHANGED <<dry_run, input_readable, hep_collection, store,
                   current_record_ids, current_records, bad_record_ids,
                   new_elements, new_pdg_data, elements_missing, elements_invalid,
                   ids_add, ids_compare, ids_delete, appends, updates, deletions,
                   parse_result>>

\* lines 311-314
WriteDelete ==
    /\ pc = "write_delete" /\ status = "running"
    /\ UNCHANGED subvars
    /\ IF deletions # None
       THEN \E ok \in OpenOutcomes(~dry_run) :
                Written(write_records_to_file(files, log, "delete.xml",
                                              TheValue(deletions), dry_run, ok),
                        "return")
       ELSE /\ log' = Said("No records to delete from.")
            /\ pc' = "return"
            /\ UNCHANGED <<files, status>>
    /\ UNCHANGED <<dry_run, input_readable, hep_collection, store,
                   current_record_ids, current_records, bad_record_ids,
                   new_elements, new_pdg_data, elements_missing, elements_invalid,
                   ids_add, ids_compare, ids_delete, appends, updates, deletions,
                   parse_result>>

\* main returns, and bst_pdg_update_idents (lines 331-333) with it
Return ==
    /\ pc = "return" /\ status = "running"
    /\ UNCHANGED subvars
    /\ status' = "returned"
    /\ UNCHANGED <<pc, dry_run, input_readable, hep_collection, store,
                   current_record_ids, current_records, bad_record_ids,
                   new_elements, new_pdg_data, elements_missing, elements_invalid,
                   ids_add, ids_compare, ids_delete, appends, updates, deletions,
                   files, log, parse_result>>

vars == <<jobvars, subvars>>

Init ==
    /\ pc = "fetch"
    /\ dry_run \in BOOLEAN
    /\ input_readable \in BOOLEAN
    /\ hep_collection = RecIds
    /\ store = << >>
    /\ current_record_ids = {}
    /\ current_records = << >>
    /\ bad_record_ids = << >>
    /\ new_elements = << >>
    /\ log = {}
    /\ NothingParsed
    /\ SubmitIdle

Next ==
    \/ Fetch
    \/ ReportBadRecordIds
    \/ ReadInput
    \/ ParseInput
    \/ ReportMissing
    \/ ReportInvalid
    \/ MatchRecords
    \/ UpdateAdd
    \/ UpdateCompare
    \/ UpdateDelete
    \/ WriteAppend
    \/ WriteCorrect
    \/ WriteDelete
    \/ Return

Spec == Init /\ [][Next]_vars

(* ------------- the update phase alone, on any stored record ------------- *)

\* scheme, source ("" for none) and value of the 084 fields a record may hold
FieldDescs ==
    {<<"PDG", "PDG", v>> : v \in PdgValues}
    \cup {<<"PACS", "", v>> : v \in PdgValues}
    \cup {<<"PDG", "CURATOR", v>> : v \in PdgValues}

UpdateShapes == SeqsUpTo(FieldDescs, MaxFields) \ {<< >>}

PdgLists == SeqsUpTo(PdgValues, MaxPdgIds)

\* main at line 291, one record found by the search, in or not in the input
InitUpdate ==
    /\ pc = "update_compare"
    /\ dry_run = FALSE
    /\ input_readable = TRUE
    /\ hep_collection = RecIds
    /\ \E r \in RecIds, shape \in UpdateShapes, wanted \in {None} \cup {Some(l) : l \in PdgLists} :
          /\ store = (r :> StoredRecord(r, shape))
          /\ current_record_ids = {r}
          /\ current_records = (r :> StoredRecord(r, shape))
          /\ new_elements = IF wanted = None THEN << >>
                            ELSE <<Element(KeysWanted, IntId(r), TheValue(wanted))>>
          /\ new_pdg_data = IF wanted = None THEN << >> ELSE (r :> TheValue(wanted))
          /\ ids_add = IdsAdd(DOMAIN new_pdg_data, {r})
          /\ ids_compare = IdsCompare(DOMAIN new_pdg_data, {r})
          /\ ids_delete = IdsDelete(DOMAIN new_pdg_data, {r})
    /\ bad_record_ids = << >>
    /\ status = "running"
    /\ elements_missing = << >>
    /\ elements_invalid = << >>
    /\ appends = None
    /\ updates = None
    /\ deletions = None
    /\ files = << >>
    /\ log = {<<"Reading from file", "", 0>>, <<"No new fields to append.", "", 0>>}
    /\ parse_result = None
    /\ SubmitIdle

NextUpdate == UpdateCompare \/ UpdateDelete

SpecUpdate == InitUpdate /\ [][NextUpdate]_vars

(* --------------------------- the parser alone --------------------------- *)

ParserElements ==
    {Element(k, id, l) :
        k \in SUBSET {"inspireId", "pdgIdList", "extra"},
        id \in {IntId(n) : n \in InputIds} \cup {StrId(n) : n \in InputIds},
        l \in PdgLists}

InitParse ==
    /\ pc = "parser"
    /\ dry_run = FALSE
    /\ input_readable = TRUE
    /\ hep_collection \in SUBSET InputIds
    /\ store = << >>
    /\ current_record_ids = {}
    /\ current_records = << >>
    /\ bad_record_ids = << >>
    /\ new_elements \in {<<e>> : e \in ParserElements}
    /\ log = {}
    /\ NothingParsed
    /\ SubmitIdle

\* lines 114-135, called with one element
ParseElement ==
    /\ pc = "parser" /\ status = "running"
    /\ UNCHANGED subvars
    /\ parse_result' = Some(parse_pdg_element(new_elements[1], hep_collection))
    /\ pc' = "parsed"
    /\ UNCHANGED <<status, dry_run, input_readable, hep_collection, store,
                   current_record_ids, current_records, bad_record_ids,
                   new_elements, new_pdg_data, elements_missing, elements_invalid,
                   ids_add, ids_compare, ids_delete, appends, updates, deletions,
                   files, log>>

NextParse == ParseElement

SpecParse == InitParse /\ [][NextParse]_vars

(* --------------------- CONFSUBMIT_Insert_Record.py ---------------------- *)

MaxRnLen == 2

MaxTaskId == 2

RnPieces == {"DEMO", "/", "7"}

RecordFiles == {"<record>A</record>", "<record>B</record>"}

\* what a bibupload_id file left by an earlier submission holds
StaleIdFile == "0"

\* str(n) of a task id
str(n) == CASE n = 0 -> "0" [] n = 1 -> "1" [] n = 2 -> "2" [] n = 3 -> "3"
            [] OTHER -> "many"

\* str.replace(old, new) on a string given as its pieces
Replace(text, old, new) ==
    [i \in DOMAIN text |-> IF text[i] = old THEN new ELSE text[i]]

\* lines 41-43: "%s_%s" % (rn.replace('/', '_'), time.strftime(...))
FinalFile(rn_, time) == Replace(rn_, "/", "_") \o <<"_", time>>

\* line 46
UploadArguments(path) ==
    <<"bibupload", "websubmit.Insert_Record", "-r", "-i", path, "-P", "5">>

InitSubmit ==
    /\ sub_pc = "check"
    /\ sub_status = "running"
    /\ \E present \in SUBSET {"recmysql", "bibupload_id"}, content \in RecordFiles :
          curdir = [f \in present |-> IF f = "recmysql" THEN content ELSE StaleIdFile]
    /\ shared_dir = << >>
    /\ rn \in SeqsUpTo(RnPieces, MaxRnLen) \ {<< >>}
    /\ timestamp = "2011-01-01_00:00:00"
    /\ final_file = None
    /\ tasks = << >>
    /\ bibupload_id = None
    /\ pc = "idle"
    /\ dry_run = FALSE
    /\ input_readable = TRUE
    /\ hep_collection = RecIds
    /\ store = << >>
    /\ current_record_ids = {}
    /\ current_records = << >>
    /\ bad_record_ids = << >>
    /\ new_elements = << >>
    /\ log = {}
    /\ NothingParsed

\* lines 36-43
CheckRecordFile ==
    /\ sub_pc = "check" /\ sub_status = "running"
    /\ IF "recmysql" \in DOMAIN curdir
       THEN /\ final_file' = Some(FinalFile(rn, timestamp))
            /\ sub_pc' = "copy"
            /\ UNCHANGED sub_status
       ELSE /\ sub_status' = "InvenioWebSubmitFunctionError"
            /\ UNCHANGED <<final_file, sub_pc>>
    /\ UNCHANGED <<curdir, shared_dir, rn, timestamp, tasks, bibupload_id>>
    /\ UNCHANGED jobvars

\* line 44 without the copy
CopyRecordFileSkipped ==
    /\ sub_pc = "copy" /\ sub_status = "running"
    /\ sub_pc' = "submit"
    /\ UNCHANGED <<sub_status, shared_dir, curdir, rn, timestamp, final_file, tasks,
                   bibupload_id>>
    /\ UNCHANGED jobvars

\* line 44: shutil.copy(initial_file, final_file), which may raise IOError
CopyRecordFile ==
    /\ sub_pc = "copy" /\ sub_status = "running"
    /\ \E ok \in BOOLEAN :
          IF ok
          THEN /\ shared_dir' = (TheValue(final_file) :> curdir["recmysql"]) @@ shared_dir
               /\ sub_pc' = "submit"
               /\ UNCHANGED sub_status
          ELSE /\ sub_status' = "IOError"
               /\ UNCHANGED <<shared_dir, sub_pc>>
    /\ UNCHANGED <<curdir, rn, timestamp, final_file, tasks, bibupload_id>>
    /\ UNCHANGED jobvars

\* line 46: task_low_level_submission returns the id of the new task
SubmitUpload ==
    /\ sub_pc = "submit" /\ sub_status = "running"
    /\ \E id \in 1..MaxTaskId : bibupload_id' = Some(id)
    /\ tasks' = Append(tasks, UploadArguments(TheValue(final_file)))
    /\ sub_pc' = "record_id"
    /\ UNCHANGED <<sub_status, curdir, shared_dir, rn, timestamp, final_file>>
    /\ UNCHANGED jobvars

\* lines 47-48: open(curdir/bibupload_id, 'w').write(str(bibupload_id))
RecordJobId ==
    /\ sub_pc = "record_id" /\ sub_status = "running"
    /\ \E ok \in BOOLEAN :
          IF ok
          THEN /\ curdir' = ("bibupload_id" :> str(TheValue(bibupload_id))) @@ curdir
               /\ sub_status' = "returned"
          ELSE /\ sub_status' = "IOError"
               /\ UNCHANGED curdir
    /\ UNCHANGED <<sub_pc, shared_dir, rn, timestamp, final_file, tasks, bibupload_id>>
    /\ UNCHANGED jobvars

NextSubmit ==
    \/ CheckRecordFile
    \/ CopyRecordFile
    \/ SubmitUpload
    \/ RecordJobId

SpecSubmit == InitSubmit /\ [][NextSubmit]_vars

(* ------------------------- claims about the job ------------------------ *)

AfterMatch ==
    pc \in {"update_add", "update_compare", "update_delete",
            "write_append", "write_correct", "write_delete", "return"}

FileNames == {files[i].name : i \in DOMAIN files}

ErrorLogged(name) == <<"Error: Could not write to file", name, 0>> \in log

\* the names write_list_to_file was called with
Attempted == {m[2] : m \in {e \in log : e[1] = "lines written"}}

\* the step of main that writes the file
WriteStep(name) ==
    CASE name = "bad_record_ids" -> "bad_report"
      [] name = "missing-records.txt" -> "missing_report"
      [] name = "invalid-elements.txt" -> "invalid_report"
      [] name = "append.xml" -> "write_append"
      [] name = "correct.xml" -> "write_correct"
      [] name = "delete.xml" -> "write_delete"

\* whether the record of the compare set carries the desired PDG values
Agrees(r) == PdgValuesOf(current_records[r]) = Range(new_pdg_data[r])

\* C2: once main has matched the records, ids_add, ids_compare and ids_delete
\* are pairwise disjoint, their union is the union of the current ids and the
\* new ids, and an id is in ids_add iff it is only in the new data, in
\* ids_compare iff it is in both, in ids_delete iff it is only a current id.
C2_Partition ==
    AfterMatch =>
        LET cur == current_record_ids
            new == DOMAIN new_pdg_data
        IN  /\ ids_add \cap ids_compare = {}
            /\ ids_add \cap ids_delete = {}
            /\ ids_compare \cap ids_delete = {}
            /\ ids_add \cup ids_compare \cup ids_delete = cur \cup new
            /\ \A r \in cur \cup new :
                 /\ r \in ids_add <=> (r \in new /\ r \notin cur)
                 /\ r \in ids_compare <=> (r \in new /\ r \in cur)
                 /\ r \in ids_delete <=> (r \notin new /\ r \in cur)

C2_Witness == AfterMatch /\ ids_compare # {} /\ ids_delete # {}

\* C3: when check_existing_pdg_fields has returned, every record of the compare
\* set whose current PDG values equal the desired ones has no deletions and no
\* additions and is absent from the corrections; when every record agrees the
\* corrections are empty and no correct.xml is written.
C3_NoOpOnAgreement ==
    updates # None =>
        /\ \A r \in ids_compare :
             Agrees(r) =>
                /\ Deletions(current_records[r], new_pdg_data, r) = {}
                /\ Additions(current_records[r], new_pdg_data, r) = {}
                /\ r \notin DOMAIN TheValue(updates)
        /\ (\A r \in ids_compare : Agrees(r)) =>
                /\ TheValue(updates) = << >>
                /\ "correct.xml" \notin FileNames
                /\ ~ErrorLogged("correct.xml")

C3_Witness ==
    /\ status = "returned" /\ ~dry_run
    /\ ids_compare # {}
    /\ \A r \in ids_compare : Agrees(r)
    /\ <<"No records to correct.", "", 0>> \in log

\* C6 as claimed: in dry-run mode a run writes no file at all.
C6_DryRunWritesNoFile == dry_run => files = << >>

\* C6 as amended: in dry-run mode a run writes none of the change-sets
\* append.xml, correct.xml and delete.xml, and logs the number of records of
\* every non-empty change-set whose write step it has passed (the report files
\* bad_record_ids, missing-records.txt and invalid-elements.txt are written).
C6_DryRunWritesNoChangeSet ==
    dry_run =>
        /\ FileNames \cap ChangeSets = {}
        /\ (pc \in {"write_correct", "write_delete", "return"} /\ appends # None) =>
              <<"DRY: Ready to write", "append.xml",
                Cardinality(DOMAIN TheValue(appends))>> \in log
        /\ (pc \in {"write_delete", "return"} /\ updates # None
                /\ TheValue(updates) # << >>) =>
              <<"DRY: Ready to write", "correct.xml",
                Cardinality(DOMAIN TheValue(updates))>> \in log
        /\ (pc = "return" /\ deletions # None) =>
              <<"DRY: Ready to write", "delete.xml",
                Cardinality(DOMAIN TheValue(deletions))>> \in log

C6_Witness ==
    /\ dry_run /\ pc = "write_correct"
    /\ appends # None
    /\ files # << >>

C9_RunsToCompletion ==
    (input_readable /\ bad_record_ids = << >>) => status \in {"running", "returned"}

\* C10: when main starts the update phase every id of ids_compare and of
\* ids_delete has an entry in current_records.
C10_AllIdsValid ==
    AfterMatch => (ids_compare \cup ids_delete) \subseteq DOMAIN current_records

\* a field whose scheme and source subfields are both PDG
IsPdg(f) == <<"2", "PDG">> \in Range(f.subs) /\ <<"9", "PDG">> \in Range(f.subs)

ValueOf(f) == CHOOSE v \in PdgValues : <<"a", v>> \in Range(f.subs)

Fields084(rec) == IF "084" \in DOMAIN rec THEN rec["084"] ELSE << >>

PdgField(v) == <<<<"2", "PDG">>, <<"9", "PDG">>, <<"a", v>>>>

\* C1: parse_pdg_element returns Invalid iff the key set is not exactly
\* {inspireId, pdgIdList}, Success iff the keys are those and the id is in the
\* HEP collection, Missing iff the keys are those and the id is not; Success
\* comes with int(inspireId) and the pdgIdList, the others with None and None.
C1_ThreeWayParse ==
    parse_result # None =>
        LET e == new_elements[1]
            r == TheValue(parse_result)
            exact == e.keys = {"inspireId", "pdgIdList"}
            found == e.inspireId.n \in hep_collection
        IN  /\ r.status \in {Success, Missing, Invalid}
            /\ r.status = Invalid <=> ~exact
            /\ r.status = Success <=> (exact /\ found)
            /\ r.status = Missing <=> (exact /\ ~found)
            /\ r.status = Success =>
                  (r.recid = {e.inspireId.n} /\ r.pdg_values = {e.pdgIdList})
            /\ r.status # Success => (r.recid = None /\ r.pdg_values = None)

C1_Witness ==
    /\ parse_result # None
    /\ TheValue(parse_result).status = Success
    /\ new_elements[1].inspireId.str
    /\ new_elements[1].pdgIdList # << >>

\* C4: when check_existing_pdg_fields has returned, every record of the compare
\* set whose current and desired PDG values differ is in the corrections with
\* deletions = current - desired and additions = desired - current; the 084
\* fields of the corrected record are the old ones without the PDG fields whose
\* value is deleted, in their order, followed by one new field (2=PDG, 9=PDG,
\* a=value) per addition; its PDG values are the desired ones.
C4_CorrectionOnDifference ==
    updates # None =>
        \A r \in ids_compare :
            ~Agrees(r) =>
                LET cur == current_records[r]
                    want == Range(new_pdg_data[r])
                    have == {ValueOf(f) : f \in {g \in Range(cur["084"]) : IsPdg(g)}}
                    dels == have \ want
                    adds == want \ have
                    upd == TheValue(updates)[r]
                    now == Fields084(upd)
                    kept == SelectSeq(cur["084"],
                                LAMBDA f : ~(IsPdg(f) /\ ValueOf(f) \in dels))
                    added == SubSeq(now, Len(kept) + 1, Len(now))
                IN  /\ r \in DOMAIN TheValue(updates)
                    /\ Deletions(cur, new_pdg_data, r) = dels
                    /\ Additions(cur, new_pdg_data, r) = adds
                    /\ upd["001"] = cur["001"]
                    /\ Len(now) = Len(kept) + Cardinality(adds)
                    /\ SubSeq(now, 1, Len(kept)) = kept
                    /\ {f.subs : f \in Range(added)} = {PdgField(v) : v \in adds}
                    /\ {ValueOf(f) : f \in {g \in Range(now) : IsPdg(g)}} = want

C4_Witness ==
    /\ updates # None
    /\ \E r \in ids_compare :
          /\ PdgValuesOf(current_records[r]) = {"S008"}
          /\ Range(new_pdg_data[r]) = {"S008", "S009"}
          /\ \E f \in Range(current_records[r]["084"]) : ~IsPdg(f)
          /\ Additions(current_records[r], new_pdg_data, r) = {"S009"}
          /\ Deletions(current_records[r], new_pdg_data, r) = {}
          /\ r \in DOMAIN TheValue(updates)

\* C5: when remove_pdg_fields has returned, every record of the delete set has
\* an entry made of the record's 001 field and of exactly those of its 084
\* fields whose scheme and source are both PDG, so that the fields not listed
\* are the non-PDG ones; the current record is as the store holds it.
C5_DeletionListsPdgFields ==
    deletions # None =>
        \A r \in ids_delete :
            /\ r \in DOMAIN TheValue(deletions)
            /\ LET del == TheValue(deletions)[r]
                   old == store[r]["084"]
               IN  /\ DOMAIN del = {"001", "084"}
                   /\ del["001"] = store[r]["001"]
                   /\ del["001"][1].ctl = r
                   /\ del["084"] = SelectSeq(old, IsPdg)
                   /\ {f \in Range(old) : f \notin Range(del["084"])}
                        = {f \in Range(old) : ~IsPdg(f)}
            /\ current_records[r] = store[r]

C5_Witness ==
    /\ deletions # None
    /\ \E r \in ids_delete :
          /\ \E f \in Range(store[r]["084"]) : IsPdg(f)
          /\ \E f \in Range(store[r]["084"]) :
                ~IsPdg(f) /\ <<"2", "PDG">> \in Range(f.subs)
          /\ Len(TheValue(deletions)[r]["084"]) = 1

(* ---------------------- claims about the forwarder ---------------------- *)

IdWritten == "bibupload_id" \in DOMAIN curdir /\ curdir["bibupload_id"] # StaleIdFile

\* C8: without curdir/recmysql the function raises
\* InvenioWebSubmitFunctionError and has copied nothing, submitted nothing and
\* written no bibupload_id; otherwise a task is submitted only once the record
\* file is copied to the staging directory, with the path of that copy, and
\* bibupload_id is written only once the task is submitted, with the id returned.
C8_FixedOrder ==
    /\ "recmysql" \notin DOMAIN curdir =>
          /\ sub_pc = "check"
          /\ sub_status \in {"running", "InvenioWebSubmitFunctionError"}
          /\ shared_dir = << >> /\ tasks = << >> /\ ~IdWritten
    /\ sub_status = "InvenioWebSubmitFunctionError" => "recmysql" \notin DOMAIN curdir
    /\ ("recmysql" \in DOMAIN curdir /\ sub_pc # "check") =>
          sub_status # "InvenioWebSubmitFunctionError"
    /\ tasks # << >> =>
          /\ Len(tasks) = 1
          /\ tasks[1] = UploadArguments(TheValue(final_file))
          /\ tasks[1][5] \in DOMAIN shared_dir
          /\ shared_dir[tasks[1][5]] = curdir["recmysql"]
    /\ IdWritten =>
          /\ tasks # << >>
          /\ bibupload_id # None
          /\ curdir["bibupload_id"] = str(TheValue(bibupload_id))
    /\ sub_status = "returned" => IdWritten

C8_Witness ==
    /\ sub_status = "returned"
    /\ IdWritten
    /\ "/" \in Range(rn)
    /\ "bibupload_id" \in DOMAIN curdir

====
